---- MODULE Spec2Model ----
(***************************************************************************)
(* Caching pass-through proxy in front of VROOM (server.js).               *)
(*                                                                         *)
(* POST / : makeKey -> redis.get -> axios.post -> redis.setEx -> respond.  *)
(* GET /health : five probes joined with Promise.all.                      *)
(*                                                                         *)
(* A handler runs to its next await in one step; the steps of concurrent   *)
(* requests interleave at the awaits (redis.get, axios.post, redis.setEx). *)
(*                                                                         *)
(* Spec       POST / with clients that send one body, and the clock        *)
(* FrameSpec  the same with clients that send either of two bodies         *)
(* LiveSpec   POST / under the assumption that every call settles          *)
(* HealthSpec GET /health                                                  *)
(* KeySpec    makeKey applied to pairs of bodies                           *)
(***************************************************************************)
EXTENDS Integers, Sequences, FiniteSets, TLC

(***************************************************************************)
(* Bounds of the model                                                     *)
(***************************************************************************)
\* number of requests that can be in flight at once
NReq == 2
\* number of clock steps the model lets pass
MaxTicks == 2
\* largest value of a field of a request body given to makeKey
MaxVal == 2

Reqs == 1..NReq

(***************************************************************************)
(* Program constants                                                       *)
(***************************************************************************)
\* redis.setEx(key, 3600, ...)
TTL == 3600
\* the clock advances by half a time-to-live per step
TickStep == TTL \div 2
\* timeout: 5000 of the health probes' axios.get and axios.post
ProbeTimeout == 5000

(***************************************************************************)
(* Values                                                                  *)
(***************************************************************************)
\* request bodies as express.json() hands them over: ordered fields
BodyJV == << <<"jobs", 1>>, <<"vehicles", 1>> >>
BodyVJ == << <<"vehicles", 1>>, <<"jobs", 1>> >>
Bodies == {BodyJV, BodyVJ}
\* the body the clients of POST / send, again and again
Sent == {BodyJV}
NoBody == << >>

\* result payloads the upstream can send with status 200
Datas == {"d1", "d2"}
\* the payload the upstream sends with any other status
ErrData == "e1"
\* statuses the upstream can send: 200, another 2xx, a 4xx, a 5xx
Statuses == {200, 201, 404, 500}
\* err.code of a request that got no response; "" when axios sets none
Codes == {"ECONNABORTED", ""}

\* JSON.stringify: the serialized text of a value
JSONstringify(v) == <<"json", v>>
\* JSON.parse: the value a serialized text stands for
JSONparse(s) == s[2]

\* crypto.createHash("md5").update(s).digest("hex")
md5hex(s) == <<"md5", s>>

\* a derivation that puts the fields in one order before it hashes them
makeKeyUnordered(body) ==
    <<"vroom:",
      md5hex(JSONstringify(IF Len(body) = 2 /\ body[1][1] = "vehicles"
                           THEN <<body[2], body[1]>> ELSE body))>>

\* function makeKey(body)
makeKey(body) == <<"vroom:", md5hex(JSONstringify(body))>>

Keys == {makeKey(b) : b \in Bodies}

\* the bodies key derivation is tried on: objects of up to two fields, in
\* either order of the fields
FieldNames == {"jobs", "vehicles"}
Fields == {<<n, v>> : n \in FieldNames, v \in 1..MaxVal}
KeyBodies ==
    {<< >>} \cup {<<f>> : f \in Fields}
        \cup {fg \in Fields \X Fields : fg[1][1] # fg[2][1]}

(***************************************************************************)
(* What the network can do to one axios call                               *)
(***************************************************************************)
NoOutcome == [kind |-> "none", status |-> 0, data |-> "", code |-> ""]
\* the upstream answered with a status and a body
Answered(s, d) == [kind |-> "response", status |-> s, data |-> d, code |-> ""]
\* the request was sent and no response came (refused, DNS, timeout)
NoResponse(c) == [kind |-> "noresponse", status |-> 0, data |-> "", code |-> c]
\* the call failed before a request existed (bad URL, serialization)
Failed == [kind |-> "other", status |-> 0, data |-> "", code |-> ""]

UpstreamOutcomes ==
    {Answered(200, d) : d \in Datas}
        \cup {Answered(s, ErrData) : s \in Statuses \ {200}}
        \cup {NoResponse(c) : c \in Codes} \cup {Failed}

\* validateStatus: () => true
validateAny(status) == TRUE
\* a probe that lets every status through
validateBelow500Lax(status) == status < 600

\* validateStatus: (status) => status < 500
validateBelow500(status) == status < 500

\* axios settles the promise: it resolves when validateStatus accepted the
\* status, rejects with err.response otherwise, and rejects with
\* err.request only when no response came
AxiosSettle(o, accepted) ==
    IF o.kind = "response" /\ accepted
    THEN [resolved |-> TRUE, isAxiosError |-> FALSE, response |-> TRUE,
          request |-> TRUE, status |-> o.status, data |-> o.data,
          code |-> "", message |-> ""]
    ELSE IF o.kind = "response"
    THEN [resolved |-> FALSE, isAxiosError |-> TRUE, response |-> TRUE,
          request |-> TRUE, status |-> o.status, data |-> o.data,
          code |-> "ERR_BAD_RESPONSE", message |-> "Request failed"]
    ELSE IF o.kind = "noresponse"
    THEN [resolved |-> FALSE, isAxiosError |-> TRUE, response |-> FALSE,
          request |-> TRUE, status |-> 0, data |-> "", code |-> o.code,
          message |-> "Network Error"]
    ELSE [resolved |-> FALSE, isAxiosError |-> FALSE, response |-> FALSE,
          request |-> FALSE, status |-> 0, data |-> "", code |-> "",
          message |-> "Invalid URL"]

\* the error a rejected redis call throws: not an axios error
RedisError ==
    [resolved |-> FALSE, isAxiosError |-> FALSE, response |-> FALSE,
     request |-> FALSE, status |-> 0, data |-> "", code |-> "",
     message |-> "Socket closed unexpectedly"]

(***************************************************************************)
(* Responses of POST /                                                     *)
(***************************************************************************)
NoRes == [sent |-> FALSE, status |-> 0, body |-> << >>, xcache |-> "none"]
\* res.status(s).json(b) after res.set("X-Cache", x), x = "none" if unset
Res(s, b, x) == [sent |-> TRUE, status |-> s, body |-> b, xcache |-> x]

\* typeof err.response.data === "object"
IsObject(d) == d \in Datas \cup {ErrData}

\* a catch block that reports err.code without the "EAXIOS" fallback
HandlerCatchBareCode(err) ==
    IF err.isAxiosError /\ err.response
    THEN Res(err.status,
             IF IsObject(err.data) THEN <<"data", err.data>>
             ELSE <<"error", err.data>>,
             "none")
    ELSE IF err.isAxiosError /\ err.request
    THEN Res(502, <<"error", "Bad gateway to VROOM", "code", err.code>>,
             "none")
    ELSE Res(500, <<"error", "Internal server error">>, "none")

\* the catch block of the handler
HandlerCatch(err) ==
    IF err.isAxiosError /\ err.response
    THEN Res(err.status,
             IF IsObject(err.data) THEN <<"data", err.data>>
             ELSE <<"error", err.data>>,
             "none")
    ELSE IF err.isAxiosError /\ err.request
    THEN Res(502, <<"error", "Bad gateway to VROOM", "code",
                    IF err.code # "" THEN err.code ELSE "EAXIOS">>, "none")
    ELSE Res(500, <<"error", "Internal server error">>, "none")

(***************************************************************************)
(* State                                                                   *)
(***************************************************************************)
VARIABLES
    cache,  \* the Redis store: key -> entry
    now,    \* seconds since start
    req,    \* the POST / requests in flight
    last,   \* the POST / request answered last, with its response
    hpc,    \* where the GET /health handler is
    probe,  \* the five probes of the health check
    report, \* the body GET /health answered with
    hrun,   \* the health check under way: which one, and how long it waits
    keyrun  \* two bodies given to makeKey, and the keys it returned

vars == <<cache, now, req, last, hpc, probe, report, hrun, keyrun>>
handlerVars == <<cache, now, req, last>>
healthVars == <<hpc, probe, report, hrun>>

NoPrior == [set |-> FALSE, data |-> "", at |-> 0]
\* an entry; orig and raced are history: the first status-200 MISS response
\* for the key that is less than 3600 seconds old (its body and its time),
\* and whether another write followed it
NoEntry == [present |-> FALSE, val |-> << >>, exp |-> 0,
            orig |-> NoPrior, raced |-> FALSE]

\* an entry the store still serves
Live(e) == e.present /\ now < e.exp

\* what GET key finds: the entry, or none
Lookup(k) == IF Live(cache[k]) THEN cache[k] ELSE NoEntry

\* if (cached): null is falsy, every stored text is a non-empty string
Truthy(cached) == cached # << >>

\* a request in flight: where its handler waits, req.body, vroomRes once
\* axios.post resolved; since and calls are history: the time of the
\* status-200 MISS response to the same body that preceded the arrival, -1
\* for none, and the number of axios.post calls the request has made
IdleReq == [pc |-> "idle", body |-> NoBody, up |-> NoOutcome, since |-> -1,
            calls |-> 0]

\* nothing answered yet
NoLast == [body |-> NoBody, got |-> "pending", cached |-> << >>,
           raced |-> FALSE, up |-> NoOutcome, wrote |-> "no", since |-> -1,
           calls |-> 0, res |-> NoRes]

\* request r is answered with res: how redis.get settled ("value", "nil",
\* "error") and what it returned, whether the entry read had been written
\* again after the first response, how axios.post settled, and what the
\* request's setEx did to the store ("no", "created", "overwrote")
Answer(r, got, cached, raced, up, wrote, res) ==
    [body |-> req[r].body, got |-> got, cached |-> cached, raced |-> raced,
     up |-> up, wrote |-> wrote, since |-> req[r].since,
     calls |-> req[r].calls, res |-> res]

\* the fixed probes of GET /health, in dispatch order
ProbeIds == 1..5
ProbeTable ==
    << [kind |-> "osrm", url |-> "http://osrm-motorbike:5000",
        profile |-> "motorbike"],
       [kind |-> "osrm", url |-> "http://osrm-small-truck:5000",
        profile |-> "smalltruck"],
       [kind |-> "vroom", url |-> "VROOM_URL", profile |-> "motorbike"],
       [kind |-> "vroom", url |-> "VROOM_URL", profile |-> "smalltruck"],
       [kind |-> "redis", url |-> "REDIS_URL", profile |-> ""] >>

NoResult == [status |-> -1, ok |-> FALSE, message |-> << >>]
\* out is how the probe's call settled, result the object the check returned;
\* gen and at are history: the health check that dispatched the probe, and
\* how long that check had waited when the probe settled
IdleProbe == [st |-> "idle", out |-> NoOutcome, result |-> NoResult,
              gen |-> 0, at |-> 0]
PendingProbe == [st |-> "pending", out |-> NoOutcome, result |-> NoResult,
                 gen |-> 0, at |-> 0]
\* no health check yet; gen tells one check from the next, waited is the
\* time since the probes were dispatched, in milliseconds
NoRun == [gen |-> 0, waited |-> 0]
NoReport == [sent |-> FALSE]

\* makeKey has not been called
NoKeyRun == [st |-> "idle", a |-> NoBody, b |-> NoBody, ka |-> << >>,
             kb |-> << >>]

ProgInit ==
    /\ cache = [k \in Keys |-> NoEntry]
    /\ now = 0
    /\ req = [r \in Reqs |-> IdleReq]
    /\ last = NoLast
    /\ hpc = "idle"
    /\ probe = [p \in ProbeIds |-> IdleProbe]
    /\ report = NoReport
    /\ hrun = NoRun

Init == ProgInit /\ keyrun = NoKeyRun

(***************************************************************************)
(* POST /                                                                  *)
(***************************************************************************)
\* a request arrives: key = makeKey(req.body); redis.get(key) is sent
Arrive(r, b) ==
    /\ req[r].pc = "idle"
    /\ LET o == cache[makeKey(b)].orig IN
       req' = [req EXCEPT ![r] =
                 [IdleReq EXCEPT !.pc = "get", !.body = b,
                                 !.since = IF o.set THEN o.at ELSE -1]]
    /\ UNCHANGED <<cache, now, last, healthVars, keyrun>>

\* if (cached) { res.set("X-Cache","HIT"); return res.json(JSON.parse(cached)) }
HitResponse(cached) == Res(200, <<"data", JSONparse(cached)>>, "HIT")

\* a hit that also restarts the entry's time-to-live (sliding expiration)
GetReturnTouch(r) ==
    /\ req[r].pc = "get"
    /\ LET k == makeKey(req[r].body)
           e == Lookup(k)
       IN IF Truthy(e.val)
          THEN /\ req' = [req EXCEPT ![r] = IdleReq]
               /\ last' = Answer(r, "value", e.val, e.raced, NoOutcome, "no",
                                 HitResponse(e.val))
               /\ cache' = [cache EXCEPT ![k].exp = now + TTL]
          ELSE /\ req' = [req EXCEPT ![r].pc = "forward", ![r].calls = @ + 1]
               /\ last' = last
               /\ cache' = cache
    /\ UNCHANGED <<now, healthVars, keyrun>>

\* redis.get answered: a hit is sent back, a miss goes on to axios.post
GetReturn(r) ==
    /\ req[r].pc = "get"
    /\ LET e == Lookup(makeKey(req[r].body)) IN
       IF Truthy(e.val)
       THEN /\ req' = [req EXCEPT ![r] = IdleReq]
            /\ last' = Answer(r, "value", e.val, e.raced, NoOutcome, "no",
                              HitResponse(e.val))
       ELSE /\ req' = [req EXCEPT ![r].pc = "forward", ![r].calls = @ + 1]
            /\ last' = last
    /\ UNCHANGED <<cache, now, healthVars, keyrun>>

\* a catch block that logs a rejected redis.get and sends nothing
GetFailSilent(r) ==
    /\ req[r].pc = "get"
    /\ req' = [req EXCEPT ![r].pc = "over"]
    /\ UNCHANGED <<cache, now, last, healthVars, keyrun>>

\* redis.get rejected: the catch block answers
GetFail(r) ==
    /\ req[r].pc = "get"
    /\ req' = [req EXCEPT ![r] = IdleReq]
    /\ last' = Answer(r, "error", << >>, FALSE, NoOutcome, "no",
                      HandlerCatch(RedisError))
    /\ UNCHANGED <<cache, now, healthVars, keyrun>>

\* a write-back that takes every 2xx for a success
CacheableAny2xx(status) == status >= 200 /\ status < 300

\* if (vroomRes.status === 200)
Cacheable(status) == status = 200

\* res.set("X-Cache","MISS"); res.status(vroomRes.status).json(vroomRes.data)
MissResponse(status, data) == Res(status, <<"data", data>>, "MISS")

\* a forwarder that calls the upstream a second time when no response came
ForwardSettleRetry(r, o) ==
    /\ req[r].pc = "forward"
    /\ LET a == AxiosSettle(o, validateAny(o.status)) IN
       IF a.resolved /\ Cacheable(a.status)
       THEN /\ req' = [req EXCEPT ![r].pc = "write", ![r].up = o]
            /\ last' = last
       ELSE IF o.kind = "noresponse" /\ req[r].calls < 2
       THEN /\ req' = [req EXCEPT ![r].calls = @ + 1]
            /\ last' = last
       ELSE /\ req' = [req EXCEPT ![r] = IdleReq]
            /\ last' = Answer(r, "nil", << >>, FALSE, o, "no",
                              IF a.resolved
                              THEN MissResponse(a.status, a.data)
                              ELSE HandlerCatch(a))
    /\ UNCHANGED <<cache, now, healthVars, keyrun>>

\* axios.post settled: status 200 goes on to redis.setEx, any other status
\* is sent back, a rejection is answered by the catch block
ForwardSettle(r, o) ==
    /\ req[r].pc = "forward"
    /\ LET a == AxiosSettle(o, validateAny(o.status)) IN
       IF a.resolved /\ Cacheable(a.status)
       THEN /\ req' = [req EXCEPT ![r].pc = "write", ![r].up = o]
            /\ last' = last
       ELSE /\ req' = [req EXCEPT ![r] = IdleReq]
            /\ last' = Answer(r, "nil", << >>, FALSE, o, "no",
                              IF a.resolved
                              THEN MissResponse(a.status, a.data)
                              ELSE HandlerCatch(a))
    /\ UNCHANGED <<cache, now, healthVars, keyrun>>

\* a write-back with half the time-to-live
StoredShort(k, data, answered) ==
    LET old == cache[k]
        keep == old.orig.set
    IN [present |-> TRUE,
        val |-> JSONstringify(data),
        exp |-> now + TickStep,
        orig |-> IF keep THEN old.orig
                 ELSE IF answered
                      THEN [set |-> TRUE, data |-> data, at |-> now]
                      ELSE NoPrior,
        raced |-> keep]

\* SETEX key 3600 value applied by the store; answered says whether the
\* writer goes on to send its status-200 MISS response
Stored(k, data, answered) ==
    LET old == cache[k]
        keep == old.orig.set
    IN [present |-> TRUE,
        val |-> JSONstringify(data),
        exp |-> now + TTL,
        orig |-> IF keep THEN old.orig
                 ELSE IF answered
                      THEN [set |-> TRUE, data |-> data, at |-> now]
                      ELSE NoPrior,
        raced |-> keep]

\* redis.setEx answered: the response is sent
SetExReturn(r) ==
    /\ req[r].pc = "write"
    /\ LET k == makeKey(req[r].body)
           d == req[r].up.data
       IN /\ cache' = [cache EXCEPT ![k] = Stored(k, d, TRUE)]
          /\ last' = Answer(r, "nil", << >>, FALSE, req[r].up,
                            IF Live(cache[k]) THEN "overwrote" ELSE "created",
                            MissResponse(req[r].up.status, d))
    /\ req' = [req EXCEPT ![r] = IdleReq]
    /\ UNCHANGED <<now, healthVars, keyrun>>

\* redis.setEx rejected, before or after the store applied the write: the
\* catch block answers
SetExFail(r, applied) ==
    /\ req[r].pc = "write"
    /\ LET k == makeKey(req[r].body)
           d == req[r].up.data
       IN /\ cache' = IF applied
                      THEN [cache EXCEPT ![k] = Stored(k, d, FALSE)]
                      ELSE cache
          /\ last' = Answer(r, "nil", << >>, FALSE, req[r].up,
                            IF ~applied THEN "no"
                            ELSE IF Live(cache[k]) THEN "overwrote"
                            ELSE "created",
                            HandlerCatch(RedisError))
    /\ req' = [req EXCEPT ![r] = IdleReq]
    /\ UNCHANGED <<now, healthVars, keyrun>>

(***************************************************************************)
(* The store's clock                                                       *)
(***************************************************************************)
\* time passes; Redis drops every entry whose time-to-live has run out
Tick ==
    /\ now + TickStep <= MaxTicks * TickStep
    /\ now' = now + TickStep
    /\ cache' = [k \in Keys |->
          LET e == cache[k]
              o == IF e.orig.set /\ now' < e.orig.at + TTL
                   THEN e.orig ELSE NoPrior
          IN IF e.present /\ e.exp <= now'
             THEN [NoEntry EXCEPT !.orig = o]
             ELSE [e EXCEPT !.orig = o]]
    /\ UNCHANGED <<req, last, healthVars, keyrun>>

(***************************************************************************)
(* GET /health                                                             *)
(***************************************************************************)
\* statuses a probed service can answer with
ProbeStatuses == {200, 404, 500}
\* what the network can do to one probe request
ProbeOutcomes ==
    {Answered(s, "") : s \in ProbeStatuses}
        \cup {NoResponse("ECONNABORTED"), NoResponse("")}

\* error.code || error.message || "Connection failed"
ErrorText(err) ==
    IF err.code # "" THEN <<err.code>>
    ELSE IF err.message # "" THEN <<err.message>>
    ELSE <<"Connection failed">>

\* response.status < 400
ProbeOk(status) == status < 400

\* async function checkOSRMHealth(baseUrl, profile), once axios.get settled
checkOSRMHealth(baseUrl, profile, o) ==
    LET response == AxiosSettle(o, validateBelow500(o.status)) IN
    IF response.resolved
    THEN [profile |-> profile, url |-> baseUrl,
          status |-> response.status,
          ok |-> ProbeOk(response.status),
          message |-> IF ProbeOk(response.status) THEN <<"OK">>
                      ELSE <<"HTTP", response.status>>]
    ELSE [profile |-> profile, url |-> baseUrl, status |-> 0, ok |-> FALSE,
          message |-> ErrorText(response)]

\* async function checkVroomHealth(baseUrl, profile), once axios.post settled
checkVroomHealth(baseUrl, profile, o) ==
    LET response == AxiosSettle(o, validateBelow500(o.status)) IN
    IF response.resolved
    THEN [service |-> "vroom", profile |-> profile, url |-> baseUrl,
          status |-> response.status,
          ok |-> ProbeOk(response.status),
          message |-> IF ProbeOk(response.status) THEN <<"OK">>
                      ELSE <<"HTTP", response.status>>]
    ELSE [service |-> "vroom", profile |-> profile, url |-> baseUrl,
          status |-> 0, ok |-> FALSE, message |-> ErrorText(response)]

\* what redis.ping() can come back with; "error" is a rejection
PingOutcomes == {"PONG", "QUEUED", "error"}

\* error.message || "Connection failed"
PingErrorText(err) ==
    IF err.message # "" THEN <<err.message>> ELSE <<"Connection failed">>

\* async function checkRedisHealth(), once redis.ping settled
checkRedisHealth(pong) ==
    IF pong # "error"
    THEN [service |-> "redis", url |-> "REDIS_URL", status |-> 200,
          ok |-> (pong = "PONG"),
          message |-> IF pong = "PONG" THEN <<"OK">>
                      ELSE <<"Unexpected ping response">>]
    ELSE [service |-> "redis", url |-> "REDIS_URL", status |-> 0,
          ok |-> FALSE, message |-> PingErrorText(RedisError)]

\* a health check that keeps the results of the check before it
HealthStartMemo ==
    /\ hpc = "idle"
    /\ hpc' = "waiting"
    /\ hrun' = [gen |-> 1 - hrun.gen, waited |-> 0]
    /\ probe' = [p \in ProbeIds |->
                    IF probe[p].st = "settled" THEN probe[p]
                    ELSE [PendingProbe EXCEPT !.gen = 1 - hrun.gen]]
    /\ report' = NoReport
    /\ UNCHANGED <<handlerVars, keyrun>>

\* GET /health arrives: the five check functions are called, each runs to
\* its await, and the handler awaits Promise.all
HealthStart ==
    /\ hpc = "idle"
    /\ hpc' = "waiting"
    /\ hrun' = [gen |-> 1 - hrun.gen, waited |-> 0]
    /\ probe' = [p \in ProbeIds |->
                    [PendingProbe EXCEPT !.gen = 1 - hrun.gen]]
    /\ report' = NoReport
    /\ UNCHANGED <<handlerVars, keyrun>>

\* the check function of HTTP probe p returns, its call settled with o
HttpResult(p, o) ==
    IF ProbeTable[p].kind = "osrm"
    THEN checkOSRMHealth(ProbeTable[p].url, ProbeTable[p].profile, o)
    ELSE checkVroomHealth(ProbeTable[p].url, ProbeTable[p].profile, o)

\* the HTTP call of a routing or optimization probe settles before its
\* timeout
HttpProbeSettle(p, o) ==
    /\ probe[p].st = "pending"
    /\ ProbeTable[p].kind \in {"osrm", "vroom"}
    /\ hrun.waited < ProbeTimeout
    /\ probe' = [probe EXCEPT ![p] =
          [@ EXCEPT !.st = "settled", !.out = o, !.result = HttpResult(p, o),
                    !.at = hrun.waited]]
    /\ UNCHANGED <<hpc, report, hrun, handlerVars, keyrun>>

\* timeout: 5000 of axios.get and axios.post: the probes were dispatched
\* together, so 5000 ms later the timer of every HTTP call still pending
\* fires and the call is rejected with ECONNABORTED; redis.ping() has no
\* timer
BoundExpires ==
    /\ hpc = "waiting"
    /\ hrun.waited < ProbeTimeout
    /\ hrun' = [hrun EXCEPT !.waited = ProbeTimeout]
    /\ probe' = [p \in ProbeIds |->
          IF /\ probe[p].st = "pending"
             /\ ProbeTable[p].kind \in {"osrm", "vroom"}
          THEN [probe[p] EXCEPT
                  !.st = "settled",
                  !.out = NoResponse("ECONNABORTED"),
                  !.result = HttpResult(p, NoResponse("ECONNABORTED")),
                  !.at = ProbeTimeout]
          ELSE probe[p]]
    /\ UNCHANGED <<hpc, report, handlerVars, keyrun>>

\* redis.ping settles
PingSettle(p, pong) ==
    /\ probe[p].st = "pending"
    /\ ProbeTable[p].kind = "redis"
    /\ probe' = [probe EXCEPT ![p] =
          [@ EXCEPT !.st = "settled",
                    !.out = [kind |-> "ping", status |-> 0, data |-> pong,
                             code |-> ""],
                    !.result = checkRedisHealth(pong),
                    !.at = hrun.waited]]
    /\ UNCHANGED <<hpc, report, hrun, handlerVars, keyrun>>

\* an aggregate that leaves the cache-store probe out
allHealthyHttpOnly(osrmChecks, vroomChecks, redisCheck) ==
    /\ \A i \in DOMAIN osrmChecks : osrmChecks[i].ok
    /\ \A i \in DOMAIN vroomChecks : vroomChecks[i].ok

\* [...osrmChecks, ...vroomChecks, redisCheck].every(check => check.ok)
allHealthy(osrmChecks, vroomChecks, redisCheck) ==
    /\ \A i \in DOMAIN osrmChecks : osrmChecks[i].ok
    /\ \A i \in DOMAIN vroomChecks : vroomChecks[i].ok
    /\ redisCheck.ok

\* a handler that answers as soon as one probe has settled
HealthJoinEarly ==
    /\ hpc = "waiting"
    /\ \E p \in ProbeIds : probe[p].st = "settled"
    /\ LET osrmChecks == <<probe[1].result, probe[2].result>>
           vroomChecks == <<probe[3].result, probe[4].result>>
           redisCheck == probe[5].result
       IN report' = [sent |-> TRUE,
                     ok |-> allHealthy(osrmChecks, vroomChecks, redisCheck),
                     services |-> [vroom_profiles |-> vroomChecks,
                                   redis |-> redisCheck,
                                   osrm_profiles |-> osrmChecks]]
    /\ hpc' = "done"
    /\ UNCHANGED <<probe, hrun, handlerVars, keyrun>>

\* every promise of Promise.all is fulfilled: the report is sent
HealthJoin ==
    /\ hpc = "waiting"
    /\ \A p \in ProbeIds : probe[p].st = "settled"
    /\ LET osrmChecks == <<probe[1].result, probe[2].result>>
           vroomChecks == <<probe[3].result, probe[4].result>>
           redisCheck == probe[5].result
       IN report' = [sent |-> TRUE,
                     ok |-> allHealthy(osrmChecks, vroomChecks, redisCheck),
                     services |-> [vroom_profiles |-> vroomChecks,
                                   redis |-> redisCheck,
                                   osrm_profiles |-> osrmChecks]]
    /\ hpc' = "done"
    /\ UNCHANGED <<probe, hrun, handlerVars, keyrun>>

\* the health request is over; what its check functions returned is out of
\* the next request's reach
HealthFinish ==
    /\ hpc = "done"
    /\ hpc' = "idle"
    /\ report' = NoReport
    /\ UNCHANGED <<probe, hrun, handlerVars, keyrun>>

Next ==
    \/ \E r \in Reqs, b \in Sent : Arrive(r, b)
    \/ \E r \in Reqs : GetReturn(r)
    \/ \E r \in Reqs : GetFail(r)
    \/ \E r \in Reqs, o \in UpstreamOutcomes : ForwardSettle(r, o)
    \/ \E r \in Reqs : SetExReturn(r)
    \/ \E r \in Reqs, applied \in BOOLEAN : SetExFail(r, applied)
    \/ Tick

Spec == Init /\ [][Next]_vars

(***************************************************************************)
(* POST / when every call settles                                          *)
(***************************************************************************)
\* the call request r waits for settles, one way or the other
Settle(r) ==
    \/ GetReturn(r)
    \/ GetFail(r)
    \/ \E o \in UpstreamOutcomes : ForwardSettle(r, o)
    \/ SetExReturn(r)
    \/ \E applied \in BOOLEAN : SetExFail(r, applied)

\* redis.get, axios.post (timeout: 60000) and redis.setEx of every request
\* settle at last
Settling == \A r \in Reqs : WF_vars(Settle(r))

\* the requests and their calls, the store's clock standing still: whether
\* a handler gets to its response does not depend on the time
LiveNext ==
    \/ \E r \in Reqs, b \in Sent : Arrive(r, b)
    \/ \E r \in Reqs : Settle(r)

LiveSpec == Init /\ [][LiveNext]_vars /\ Settling

(***************************************************************************)
(* POST / with clients that send either of two bodies                      *)
(***************************************************************************)
FrameNext ==
    \/ \E r \in Reqs, b \in Bodies : Arrive(r, b)
    \/ \E r \in Reqs : GetReturn(r)
    \/ \E r \in Reqs : GetFail(r)
    \/ \E r \in Reqs, o \in UpstreamOutcomes : ForwardSettle(r, o)
    \/ \E r \in Reqs : SetExReturn(r)
    \/ \E r \in Reqs, applied \in BOOLEAN : SetExFail(r, applied)
    \/ Tick

FrameSpec == Init /\ [][FrameNext]_vars

(***************************************************************************)
(* makeKey on its own                                                      *)
(***************************************************************************)
\* two bodies arrive
KeyInit ==
    /\ ProgInit
    /\ keyrun \in {[NoKeyRun EXCEPT !.st = "in", !.a = x, !.b = y] :
                      x, y \in KeyBodies}

\* makeKey is called on each of the two bodies
Derive ==
    /\ keyrun.st = "in"
    /\ keyrun' = [keyrun EXCEPT !.st = "out", !.ka = makeKey(keyrun.a),
                                !.kb = makeKey(keyrun.b)]
    /\ UNCHANGED <<handlerVars, healthVars>>

KeyNext == Derive

KeySpec == KeyInit /\ [][KeyNext]_vars

HealthNext ==
    \/ HealthStart
    \/ \E p \in ProbeIds, o \in ProbeOutcomes : HttpProbeSettle(p, o)
    \/ \E p \in ProbeIds, pong \in PingOutcomes : PingSettle(p, pong)
    \/ BoundExpires
    \/ HealthJoin
    \/ HealthFinish

HealthSpec == Init /\ [][HealthNext]_vars

(***************************************************************************)
(* Properties of POST /                                                    *)
(***************************************************************************)
Key(r) == makeKey(req[r].body)
\* a response has been sent
HasAnswered == last.res.sent
LastKey == makeKey(last.body)
UpAnswered == last.up.kind = "response"
\* request r is answered in this step
Answers(r) == req[r].pc # "idle" /\ req'[r].pc = "idle"

\* the value or the expiration time of key k differs after the step
Mutated(k) ==
    \/ cache'[k].present # cache[k].present
    \/ cache'[k].val # cache[k].val
    \/ cache'[k].exp # cache[k].exp

\* C1: when redis.get fails the request is handled as a miss: it is still
\* forwarded upstream and the store failure never becomes an error response.
C1_GetFailureIsMiss ==
    HasAnswered /\ last.got = "error" =>
        /\ last.up.kind # "none"
        /\ last.res.xcache = "MISS"
        /\ last.res.status # 500

\* C2: when redis.setEx fails after the upstream answered 200, the client
\* still receives status 200 and the upstream's body with disposition MISS.
C2_SetExFailureAbsorbed ==
    HasAnswered /\ UpAnswered /\ last.up.status = 200 =>
        last.res = MissResponse(200, last.up.data)

\* C3: the store changes only by the setEx of a request whose upstream
\* answered with status exactly 200; a request whose forward ended in a
\* non-200 status, a transport failure or an unexpected failure wrote
\* nothing, and a non-200 answer is passed on with disposition MISS after
\* reaching the upstream.
C3_NoWriteInv ==
    /\ last.wrote # "no" => UpAnswered /\ last.up.status = 200
    /\ HasAnswered /\ last.up.kind # "none"
          /\ ~(UpAnswered /\ last.up.status = 200) => last.wrote = "no"
    /\ HasAnswered /\ UpAnswered /\ last.up.status # 200 =>
          /\ last.got = "nil"
          /\ last.res.xcache = "MISS"
          /\ last.res.status = last.up.status

C3_WriteStep ==
    \A k \in Keys :
        Mutated(k) /\ cache'[k].present =>
            \E r \in Reqs :
                /\ Key(r) = k
                /\ req[r].pc = "write" /\ Answers(r)
                /\ req[r].up.kind = "response" /\ req[r].up.status = 200

C3_OnlyStatus200Cached == [](C3_NoWriteInv) /\ [][C3_WriteStep]_vars

\* a request answered 201 by the upstream got it back with MISS, the store
\* holds nothing for its key, and an identical request has missed too and
\* is at the upstream
C3_Witness ==
    /\ HasAnswered
    /\ last.up = Answered(201, ErrData)
    /\ last.res = MissResponse(201, ErrData)
    /\ ~cache[LastKey].present
    /\ \E r \in Reqs : req[r].pc = "forward" /\ req[r].body = last.body

\* the request answered last had arrived after a status-200 MISS response to
\* the same body and is answered within 3600 seconds of it, its cache read
\* having answered
InWindow ==
    /\ HasAnswered
    /\ last.since >= 0
    /\ now < last.since + TTL
    /\ last.got # "error"

\* the body of the status-200 MISS response that preceded that request
First == cache[LastKey].orig.data

C4_ServedInv ==
    /\ InWindow =>
          /\ last.got = "value"
          /\ last.up.kind = "none"
          /\ last.res = Res(200, <<"data", JSONparse(last.cached)>>, "HIT")
          /\ last.raced \/ JSONparse(last.cached) = First
    /\ HasAnswered /\ last.got = "nil" => last.up.kind # "none"

C4_ReadStep ==
    \A r \in Reqs :
        req[r].pc = "get" /\ req'[r].pc # "get"
            /\ ~(Answers(r) /\ last'.got = "error") =>
                /\ Answers(r) <=> Live(cache[Key(r)])
                /\ Answers(r) => last'.got = "value"
                /\ ~Answers(r) => req'[r].pc = "forward"

C4_RefillStep ==
    \A r \in Reqs :
        req[r].pc = "write" /\ Answers(r) /\ last'.res.status = 200 =>
            /\ last'.res = MissResponse(200, req[r].up.data)
            /\ cache'[Key(r)].present
            /\ cache'[Key(r)].val = JSONstringify(req[r].up.data)
            /\ cache'[Key(r)].exp = now + TTL

C5_PassThrough ==
    HasAnswered /\ UpAnswered =>
        /\ last.res.status = last.up.status
        /\ last.res.body = <<"data", last.up.data>>
        /\ last.res.xcache = "MISS"

\* C6: when the upstream never responds the client receives 502 with an
\* error payload whose code field is non-empty, and the request does not
\* write the cache.
C6_Inv ==
    HasAnswered /\ last.up.kind = "noresponse" =>
        /\ last.res.status = 502
        /\ Len(last.res.body) = 4
        /\ last.res.body[1] = "error"
        /\ last.res.body[3] = "code"
        /\ last.res.body[4] # ""
        /\ last.wrote = "no"

C6_Step ==
    \A r \in Reqs :
        req[r].pc = "forward" /\ Answers(r)
            /\ last'.up.kind = "noresponse" => cache' = cache

C6_TransportFailureIs502 == [](C6_Inv) /\ [][C6_Step]_vars

\* a transport failure without err.code, answered 502 with the fallback code
C6_Witness ==
    /\ HasAnswered
    /\ last.up = NoResponse("")
    /\ last.res.status = 502
    /\ last.res.body[4] = "EAXIOS"

\* C7: every response carries a disposition: HIT exactly when the body came
\* from the cache, MISS for every response produced after a forward attempt,
\* the 502 and the 500 response included.
C7_EveryResponseTagged ==
    HasAnswered =>
        /\ last.res.xcache = "HIT" <=> last.got = "value"
        /\ last.up.kind # "none" => last.res.xcache = "MISS"

\* an entry of key k that is unexpired before and after the step
Unexpired(k) == Live(cache[k]) /\ now' < cache[k].exp

\* C8 as stated: while an entry exists and has not expired, no handler step
\* changes its value or its expiration time.
C8_NeverMutated ==
    [][\A k \in Keys : Unexpired(k) => ~Mutated(k)]_vars

\* C8 amended: an unexpired entry is never deleted and is changed by one
\* step only, the setEx of a request for the same key whose own cache read
\* had missed: it replaces the value and restarts the 3600 second
\* time-to-live.
C8_OnlyRacingWriteBack ==
    [][\A k \in Keys :
          Unexpired(k) /\ Mutated(k) =>
              \E r \in Reqs :
                  /\ Key(r) = k
                  /\ req[r].pc = "write" /\ Answers(r)
                  /\ last'.got = "nil" /\ last'.wrote = "overwrote"
                  /\ cache'[k].present
                  /\ cache'[k].val = JSONstringify(req[r].up.data)
                  /\ cache'[k].exp = now + TTL]_vars

\* a request whose setEx replaced an unexpired entry got its own result back
\* with MISS
C8_Witness ==
    /\ HasAnswered
    /\ last.wrote = "overwrote"
    /\ last.res.xcache = "MISS"
    /\ cache[LastKey].raced

(***************************************************************************)
(* Properties of GET /health                                               *)
(***************************************************************************)
HttpProbes == {p \in ProbeIds : ProbeTable[p].kind \in {"osrm", "vroom"}}
Settled(p) == probe[p].st = "settled"

\* C9: the report's ok field is true if and only if every probe result in
\* the report (two routing backends, two optimization profiles, the cache
\* store) has ok = true.
C9_OkIffAllProbesOk ==
    report.sent =>
        /\ report.ok <=>
              /\ \A i \in 1..2 : report.services.osrm_profiles[i].ok
              /\ \A i \in 1..2 : report.services.vroom_profiles[i].ok
              /\ report.services.redis.ok
        /\ report.ok <=> \A p \in ProbeIds : probe[p].result.ok
        /\ Len(report.services.osrm_profiles) = 2
        /\ Len(report.services.vroom_profiles) = 2

\* a report that is not ok because of the cache-store probe alone
C9_Witness ==
    /\ report.sent
    /\ ~report.ok
    /\ ~report.services.redis.ok
    /\ \A p \in HttpProbes : probe[p].result.ok

\* C10 as stated: an HTTP probe that received a response reports that
\* response's status, ok exactly when it is below 400, 5xx included, and
\* status 0 only when no response was received.
C10_ReportsReceivedStatus ==
    \A p \in HttpProbes :
        Settled(p) =>
            /\ probe[p].out.kind = "response" =>
                  /\ probe[p].result.status = probe[p].out.status
                  /\ probe[p].result.ok <=> probe[p].out.status < 400
            /\ probe[p].result.status = 0 =>
                  probe[p].out.kind = "noresponse"

\* C10 amended: a response with status below 500 is reported at its own
\* status, ok exactly when it is below 400; a response with status 500 or
\* above is reported like a transport error, status 0 and not ok; status 0
\* is reported exactly when no response came or the response was 5xx.
C10_ReportsStatusBelow500 ==
    \A p \in HttpProbes :
        Settled(p) =>
            /\ probe[p].out.kind = "response" /\ probe[p].out.status < 500 =>
                  /\ probe[p].result.status = probe[p].out.status
                  /\ probe[p].result.ok <=> probe[p].out.status < 400
            /\ probe[p].out.kind = "response" /\ probe[p].out.status >= 500 =>
                  /\ probe[p].result.status = 0
                  /\ ~probe[p].result.ok
            /\ probe[p].out.kind = "noresponse" =>
                  /\ probe[p].result.status = 0
                  /\ ~probe[p].result.ok
            /\ probe[p].result.status = 0 <=>
                  \/ probe[p].out.kind = "noresponse"
                  \/ probe[p].out.status >= 500

\* one probe answered 500 and reported at status 0, another answered 404
\* and reported at 404
C10_Witness ==
    \E p, q \in HttpProbes :
        /\ Settled(p) /\ probe[p].out = Answered(500, "")
        /\ probe[p].result.status = 0
        /\ Settled(q) /\ probe[q].out = Answered(404, "")
        /\ probe[q].result.status = 404 /\ ~probe[q].result.ok

\* what the check function of probe p returns for the way p's own call
\* settled
OwnResult(p) ==
    IF p \in HttpProbes THEN HttpResult(p, probe[p].out)
    ELSE checkRedisHealth(probe[p].out.data)

\* the call of probe p failed: no response came, or the ping was rejected
CallFailed(p) ==
    \/ probe[p].out.kind = "noresponse"
    \/ probe[p].out.kind = "ping" /\ probe[p].out.data = "error"

\* the results of the report, in dispatch order
ReportResults ==
    report.services.osrm_profiles \o report.services.vroom_profiles
        \o <<report.services.redis>>

C11_Inv ==
    /\ hpc \in {"idle", "waiting", "done"}
    /\ hpc = "waiting" =>
          \A p \in ProbeIds : probe[p].st \in {"pending", "settled"}
    /\ \A p \in ProbeIds : Settled(p) => probe[p].result = OwnResult(p)
    /\ report.sent =>
          /\ hpc = "done"
          /\ \A p \in ProbeIds :
                /\ Settled(p)
                /\ ReportResults[p] = probe[p].result
                /\ CallFailed(p) =>
                      ~ReportResults[p].ok /\ ReportResults[p].status = 0

C11_Step ==
    /\ hpc = "idle" /\ hpc' = "waiting" =>
          \A p \in ProbeIds : probe'[p].st = "pending"
    /\ \A p \in ProbeIds :
          probe[p].st = "pending" /\ probe'[p].st = "settled" =>
              /\ hpc' = "waiting"
              /\ \A q \in ProbeIds : Settled(q) => probe'[q] = probe[q]

\* C11: the health check dispatches all its probes before it awaits any
\* result and composes the report only once every probe has settled; a probe
\* that fails yields a non-ok result object inside the report, and no probe
\* failure cancels or fails a sibling probe or makes the endpoint fail.
C11_AllProbesJoined == [](C11_Inv) /\ [][C11_Step]_vars

\* a report sent although the call of one probe failed, every other probe
\* being ok
C11_Witness ==
    /\ report.sent
    /\ ~report.ok
    /\ \E p \in ProbeIds :
          /\ CallFailed(p)
          /\ ~ReportResults[p].ok
          /\ \A q \in ProbeIds \ {p} : ReportResults[q].ok

\* C12: every probe, the cache-store ping included, is bounded by the
\* per-probe timeout: once the bound has expired every probe has settled, a
\* probe settled by the bound being not ok with status 0, so the report is
\* not held up beyond the bound.
C12_EveryProbeBounded ==
    hrun.waited >= ProbeTimeout =>
        \A p \in ProbeIds :
            /\ Settled(p)
            /\ probe[p].at = ProbeTimeout =>
                  ~probe[p].result.ok /\ probe[p].result.status = 0

\* C18: every health check is computed from scratch and has a fixed shape:
\* the report holds exactly one result per probe of the five dispatched by
\* this check, in dispatch order within its group whatever the order of
\* completion, and no result of an earlier check is in it.
C18_FreshFixedShape ==
    report.sent =>
        /\ Len(report.services.osrm_profiles) = 2
        /\ Len(report.services.vroom_profiles) = 2
        /\ \A i \in 1..2 :
              /\ report.services.osrm_profiles[i].profile
                    = ProbeTable[i].profile
              /\ report.services.osrm_profiles[i].url = ProbeTable[i].url
              /\ report.services.vroom_profiles[i].profile
                    = ProbeTable[2 + i].profile
              /\ report.services.vroom_profiles[i].service = "vroom"
        /\ report.services.redis.service = "redis"
        /\ \A p \in ProbeIds :
              /\ Settled(p)
              /\ probe[p].gen = hrun.gen
              /\ ReportResults[p] = OwnResult(p)

\* the report of a second health check in which the probe dispatched first
\* completed last, by its timeout, and the one dispatched second had
\* answered before
C18_Witness ==
    /\ report.sent
    /\ hrun.gen = 0
    /\ probe[1].at = ProbeTimeout /\ probe[2].at = 0
    /\ report.services.osrm_profiles[1].profile = "motorbike"
    /\ report.services.osrm_profiles[1].status = 0
    /\ report.services.osrm_profiles[2].profile = "smalltruck"
    /\ report.services.osrm_profiles[2].status = 200

(***************************************************************************)
(* Further properties of POST /                                            *)
(***************************************************************************)
C13_Inv ==
    /\ \A r \in Reqs :
          /\ req[r].calls <= 1
          /\ req[r].pc \in {"idle", "get"} => req[r].calls = 0
          /\ req[r].pc \in {"forward", "write"} => req[r].calls = 1
    /\ HasAnswered =>
          /\ last.calls <= 1
          /\ last.got = "value" => last.calls = 0 /\ last.up.kind = "none"
          /\ last.got = "nil" => last.calls = 1 /\ last.up.kind # "none"
          /\ last.up.kind = "noresponse" => last.calls = 1

C13_Step ==
    \A r \in Reqs :
        /\ req'[r].calls > req[r].calls =>
              /\ req[r].pc = "get" /\ req'[r].pc = "forward"
              /\ ~Live(cache[Key(r)])
        /\ req[r].pc = "forward" /\ req'[r] # req[r] =>
              req'[r].pc \in {"write", "idle"}

\* C13: each client request causes at most one upstream forward call: none
\* when it is a cache HIT, exactly one on a miss, and a transport failure or
\* timeout of that call is answered without the call being made again.
C13_AtMostOneForward == [](C13_Inv) /\ [][C13_Step]_vars

\* a request whose one forward call timed out and was answered 502
C13_Witness ==
    /\ HasAnswered
    /\ last.got = "nil"
    /\ last.up = NoResponse("ECONNABORTED")
    /\ last.calls = 1
    /\ last.res.status = 502

\* the request answered last failed in a way that is neither an upstream
\* response nor a transport failure: redis.get rejected, axios.post failed
\* before a request existed, or redis.setEx rejected
UnexpectedFailure ==
    /\ HasAnswered
    /\ \/ last.got = "error"
       \/ last.up.kind = "other"
       \/ UpAnswered /\ Cacheable(last.up.status)
             /\ last.res # MissResponse(last.up.status, last.up.data)

\* C15: a failure during request handling that is neither a received
\* upstream response nor a transport failure is answered with status 500
\* and the one fixed payload {error: "Internal server error"}, and the
\* request leaves the cache unwritten.
C15_GenericFailure ==
    UnexpectedFailure =>
        /\ last.res.status = 500
        /\ last.res.body = <<"error", "Internal server error">>
        /\ last.wrote = "no"

C16_Step ==
    \A r \in Reqs :
        req[r].pc = "get" /\ Answers(r) /\ last'.got = "value" =>
            /\ Live(cache[Key(r)])
            /\ last'.res
                  = Res(200, <<"data", JSONparse(cache[Key(r)].val)>>, "HIT")
            /\ last'.wrote = "no"
            /\ \A k \in Keys : cache'[k] = cache[k]

C16_Inv ==
    \A k \in Keys :
        cache[k].present =>
            /\ cache[k].exp <= now + TTL
            /\ cache[k].orig.set /\ ~cache[k].raced =>
                  cache[k].exp = cache[k].orig.at + TTL

\* C16: a cache HIT has no side effect on the store: it answers status 200
\* with the stored body and leaves every entry's value and expiration time
\* as they were, so an entry written once expires 3600 seconds after that
\* write however many hits it served in between.
C16_HitLeavesStore == [](C16_Inv) /\ [][C16_Step]_vars

\* a HIT served 1800 seconds after the entry was written, the entry still
\* due to expire 3600 seconds after its write
C16_Witness ==
    /\ HasAnswered
    /\ last.got = "value"
    /\ last.res.xcache = "HIT"
    /\ now = TickStep
    /\ cache[LastKey].present
    /\ cache[LastKey].orig.set /\ cache[LastKey].orig.at = 0
    /\ ~cache[LastKey].raced
    /\ cache[LastKey].exp = TTL

\* a step of the handler of request r touches no entry but the one under
\* r's own key
C17_OtherKeysUntouched ==
    \A r \in Reqs :
        req[r].pc # "idle" /\ req'[r] # req[r] =>
            \A k \in Keys \ {Key(r)} : cache'[k] = cache[k]

\* two requests answered one after the other with the same body, the same
\* content read from the store and the same upstream answer got the same
\* response
C17_SameInputsSameResponse ==
    HasAnswered /\ last'.res.sent
        /\ last'.body = last.body
        /\ last'.cached = last.cached
        /\ last'.up = last.up
        => last'.res = last.res

\* C17: concurrent requests are independent except through the cache entry
\* of their own key: handling a request with key k never reads, writes or
\* expires the entry of another key, and the response to a request depends
\* only on its own body, the content of entry k at its cache read, and the
\* upstream's answer to its own forward.
C17_Independent ==
    [][C17_OtherKeysUntouched /\ C17_SameInputsSameResponse]_vars

C19_Inv ==
    \A k \in Keys :
        cache[k].present =>
            /\ now < cache[k].exp
            /\ cache[k].exp <= now + TTL
            /\ \E t \in 0..MaxTicks : cache[k].exp = t * TickStep + TTL
            /\ \E d \in Datas : cache[k].val = JSONstringify(d)
            /\ cache[k].val # JSONstringify(ErrData)

C19_Step ==
    \A k \in Keys :
        Mutated(k) /\ cache'[k].present =>
            \E r \in Reqs :
                /\ Key(r) = k
                /\ req[r].pc = "write" /\ req[r].calls = 1
                /\ req[r].up.kind = "response" /\ req[r].up.status = 200
                /\ cache'[k].val = JSONstringify(req[r].up.data)
                /\ cache'[k].exp = now + TTL

\* C19: in every reachable state each unexpired cache entry under key k
\* holds the serialized body of a status-200 upstream response to an
\* earlier forwarded request whose derived key is k and was written with a
\* time-to-live of exactly 3600 seconds; no entry holds an error payload or
\* the body of a non-200 response.
C19_EntriesAre200Bodies == [](C19_Inv) /\ [][C19_Step]_vars

\* an entry written at 1800 seconds with the second result, still there at
\* 3600 seconds and due to expire at 5400
C19_Witness ==
    /\ now = 2 * TickStep
    /\ \E k \in Keys :
          /\ cache[k].present
          /\ cache[k].val = JSONstringify("d2")
          /\ cache[k].exp = TickStep + TTL

C20_Answered ==
    \A r \in Reqs : (req[r].pc # "idle") ~> (req[r].pc = "idle")

C20_Step ==
    /\ \A r \in Reqs :
          Answers(r) =>
              /\ last'.res.sent
              /\ last'.body = req[r].body
              /\ \A q \in Reqs \ {r} : req'[q] = req[q]
    /\ last' # last => \E r \in Reqs : Answers(r)

\* C20: provided every cache-store call and the upstream call of a request
\* settle at last, every POST / request is answered at last, and no request
\* is answered more than once: the handler of a request sends a response
\* exactly when it ends, on every path.
C20_AnsweredOnce == C20_Answered /\ [][C20_Step]_vars

\* every request that arrived has been answered, the last one on the 502
\* path with the fallback code
C20_Witness ==
    /\ HasAnswered
    /\ last.res.status = 502
    /\ last.up = NoResponse("")
    /\ \A r \in Reqs : req[r].pc = "idle"
    /\ cache[LastKey].present

(***************************************************************************)
(* Properties of makeKey                                                   *)
(***************************************************************************)
C14_Inv ==
    keyrun.st = "out" =>
        /\ (JSONstringify(keyrun.a) = JSONstringify(keyrun.b))
              <=> (keyrun.ka = keyrun.kb)
        /\ keyrun.ka[1] = "vroom:" /\ keyrun.kb[1] = "vroom:"
        /\ keyrun.ka[2] = md5hex(JSONstringify(keyrun.a))
        /\ keyrun.kb[2] = md5hex(JSONstringify(keyrun.b))

C14_Step ==
    keyrun' # keyrun =>
        UNCHANGED <<cache, now, req, last, hpc, probe, report, hrun>>

\* C14: key derivation is a pure function of the serialized request body:
\* two bodies that serialize identically get the same key, bodies that
\* serialize differently get different keys, every key carries the prefix
\* "vroom:" before the digest of the serialization, and deriving a key
\* changes no cache entry and no other state.
C14_KeyOfSerialization == [](C14_Inv) /\ [][C14_Step]_vars

\* the same two fields in the two orders got two different keys
C14_Witness ==
    /\ keyrun.st = "out"
    /\ keyrun.a = BodyJV /\ keyrun.b = BodyVJ
    /\ keyrun.ka # keyrun.kb
    /\ keyrun.ka = makeKey(BodyJV)

====
